---- MODULE Spec2Model ----
(***************************************************************************)
(* A model of steamdata.py: the SteamData class (load of a CSV file into   *)
(* self.data, and the queries P1, P2, P3 over it) and its three field      *)
(* normalizers (_to_float, _to_bool, _extract_year).                       *)
(*                                                                         *)
(* A Python str is a sequence of one-character strings; Python's None is   *)
(* the one-element sequence NoneVal, whose element is no character.  A     *)
(* float is a decimal [num, scale] standing for num / 10^scale; a          *)
(* percentage rounded to 2 places is an integer number of hundredths.      *)
(***************************************************************************)
EXTENDS Integers, Sequences, FiniteSets, TLC

VARIABLES
    file,       \* the file system at csv_path: [exists, lines]
    data,       \* self.data
    pc,         \* where load() stands; "idle" between calls
    handle,     \* TRUE while the file object f of load() is open
    fieldnames, \* reader.fieldnames of the load() in progress
    outcome,    \* how the last load() ended, and what it returned
    res,        \* the last query call: its name and what it returned
    memo,       \* an earlier query call since the last load, kept to compare
    input,      \* the argument handed to a normalizer
    out         \* what the normalizer returned

vars == <<file, data, pc, handle, fieldnames, outcome, res, memo, input, out>>

\* ------------------------------------------------------------------------
\* Python values

NoneVal == <<"None">>

Digits == {"0", "1", "2", "3", "4", "5", "6", "7", "8", "9"}

DigitChars == <<"0", "1", "2", "3", "4", "5", "6", "7", "8", "9">>

DigitVal(c) == (CHOOSE i \in 1..Len(DigitChars) : DigitChars[i] = c) - 1

Whitespace == {" "}

UpperChars == <<"A", "B", "C", "D", "E", "F", "G", "H", "I", "J", "K", "L", "M",
                "N", "O", "P", "Q", "R", "S", "T", "U", "V", "W", "X", "Y", "Z">>

LowerChars == <<"a", "b", "c", "d", "e", "f", "g", "h", "i", "j", "k", "l", "m",
                "n", "o", "p", "q", "r", "s", "t", "u", "v", "w", "x", "y", "z">>

Range(s) == {s[i] : i \in DOMAIN s}

Max(S) == CHOOSE x \in S : \A y \in S : y <= x

\* str.lower()
LowerChar(c) ==
    IF c \in Range(UpperChars)
    THEN LowerChars[CHOOSE i \in DOMAIN UpperChars : UpperChars[i] = c]
    ELSE c

Lower(s) == [i \in DOMAIN s |-> LowerChar(s[i])]

\* str.strip()
RECURSIVE LStrip(_)
LStrip(s) ==
    IF s # <<>> /\ Head(s) \in Whitespace THEN LStrip(Tail(s)) ELSE s

RECURSIVE RStrip(_)
RStrip(s) ==
    IF s # <<>> /\ s[Len(s)] \in Whitespace
    THEN RStrip(SubSeq(s, 1, Len(s) - 1))
    ELSE s

Strip(s) == RStrip(LStrip(s))

IsPrefix(t, s) == Len(t) <= Len(s) /\ SubSeq(s, 1, Len(t)) = t

\* str.replace(tok, rep): the occurrences of tok, left to right, not overlapping
RECURSIVE Replace(_, _, _)
Replace(s, tok, rep) ==
    IF s = <<>> THEN <<>>
    ELSE IF IsPrefix(tok, s)
         THEN rep \o Replace(SubSeq(s, Len(tok) + 1, Len(s)), tok, rep)
         ELSE <<Head(s)>> \o Replace(Tail(s), tok, rep)

\* int() of a string of digits
RECURSIVE ToInt(_)
ToInt(s) ==
    IF s = <<>> THEN 0
    ELSE 10 * ToInt(SubSeq(s, 1, Len(s) - 1)) + DigitVal(s[Len(s)])

\* ------------------------------------------------------------------------
\* floats as decimals

RECURSIVE Normal(_, _)
Normal(num, scale) ==
    IF scale > 0 /\ num % 10 = 0
    THEN Normal(num \div 10, scale - 1)
    ELSE [num |-> num, scale |-> scale]

Zero == [num |-> 0, scale |-> 0]

LeqZero(v) == v.num <= 0

BelowZero(v) == v.num < 0

\* float(s): surrounding whitespace is dropped, then an optional sign and
\* digits with at most one period and at least one digit.  The result is
\* [ok |-> FALSE] for the ValueError.
AllDigits(s) == \A i \in DOMAIN s : s[i] \in Digits

PeriodAt(s) ==
    IF \E i \in DOMAIN s : s[i] = "."
    THEN CHOOSE i \in DOMAIN s : s[i] = "." /\ \A j \in 1..(i - 1) : s[j] # "."
    ELSE 0

ParseUnsigned(s) ==
    LET p  == PeriodAt(s)
        ip == IF p = 0 THEN s ELSE SubSeq(s, 1, p - 1)
        fp == IF p = 0 THEN <<>> ELSE SubSeq(s, p + 1, Len(s))
    IN IF AllDigits(ip) /\ AllDigits(fp) /\ Len(ip) + Len(fp) > 0
       THEN [ok |-> TRUE, num |-> ToInt(ip \o fp), scale |-> Len(fp)]
       ELSE [ok |-> FALSE]

ParseFloat(s0) ==
    LET s    == Strip(s0)
        sgn  == IF s # <<>> /\ Head(s) = "-" THEN -1 ELSE 1
        body == IF s # <<>> /\ Head(s) \in {"-", "+"} THEN Tail(s) ELSE s
        u    == ParseUnsigned(body)
    IN IF u.ok
       THEN [ok |-> TRUE, val |-> Normal(sgn * u.num, u.scale)]
       ELSE [ok |-> FALSE]

\* ------------------------------------------------------------------------
\* the normalizers

StripCurrencyDollarFirst(s) == Replace(Replace(s, <<"$">>, <<>>), <<"R", "$">>, <<>>)

\* the for loop of _to_float over ("R$", "$")
StripCurrency(s) == Replace(Replace(s, <<"R", "$">>, <<>>), <<"$">>, <<>>)

ToFloat(x) ==
    IF x = NoneVal THEN Zero
    ELSE LET s == Strip(x)
         IN IF s = <<>> THEN Zero
            ELSE LET f == ParseFloat(Replace(StripCurrency(s), <<",">>, <<".">>))
                 IN IF f.ok THEN f.val ELSE Zero

TrueTokens ==
    { <<"t", "r", "u", "e">>, <<"1">>, <<"y", "e", "s">>, <<"y">> }

ToBool(x) ==
    IF x = NoneVal THEN FALSE
    ELSE Lower(Strip(x)) \in TrueTokens

NoYear == -1

YearMin == 1970

YearMax == 2100

\* a match of (19\d{2}|20\d{2}) starting at position i
IsYearAt(s, i) ==
    /\ i >= 1
    /\ i + 3 <= Len(s)
    /\ <<s[i], s[i + 1]>> \in { <<"1", "9">>, <<"2", "0">> }
    /\ s[i + 2] \in Digits
    /\ s[i + 3] \in Digits

\* re.findall: the scan resumes after the end of each match
RECURSIVE FindAll(_, _)
FindAll(s, i) ==
    IF i > Len(s) THEN <<>>
    ELSE IF IsYearAt(s, i)
         THEN <<ToInt(SubSeq(s, i, i + 3))>> \o FindAll(s, i + 4)
         ELSE FindAll(s, i + 1)

InYearRange(y) == YearMin <= y /\ y <= YearMax

RECURSIVE KeepFirst(_, _)
KeepFirst(years, year) ==
    IF years = <<>> THEN year
    ELSE KeepFirst(Tail(years),
                   IF InYearRange(Head(years)) /\ year = NoYear
                   THEN Head(years) ELSE year)

\* the for loop of _extract_year
RECURSIVE YearLoop(_, _)
YearLoop(years, year) ==
    IF years = <<>> THEN year
    ELSE YearLoop(Tail(years),
                  IF InYearRange(Head(years)) THEN Head(years) ELSE year)

ExtractYear(date_str) ==
    IF date_str = NoneVal \/ date_str = <<>> THEN NoYear
    ELSE YearLoop(FindAll(date_str, 1), NoYear)

\* ------------------------------------------------------------------------
\* csv.DictReader, as load() uses it.  A file is a sequence of lines already
\* split into cells; a blank line is the empty sequence of cells.

\* reader.fieldnames: the first line, or None when the file has no line
ReaderFieldnames(lines) == IF lines = <<>> THEN NoneVal ELSE lines[1]

\* the key under which DictReader keeps the cells beyond the header (None)
RestKey == "<None>"

\* one row: dict(zip(fieldnames, cells)), the cells beyond the header under
\* the rest key, the columns beyond the cells set to None
DictRow(fn, cells) ==
    LET lf == Len(fn)
        lr == Len(cells)
        keys == Range(fn) \cup (IF lf < lr THEN {RestKey} ELSE {})
    IN [k \in keys |->
          IF k = RestKey /\ lf < lr /\ RestKey \notin Range(fn)
          THEN SubSeq(cells, lf + 1, lr)
          ELSE IF \E i \in (lr + 1)..lf : fn[i] = k
               THEN NoneVal
               ELSE cells[Max({i \in 1..lf : fn[i] = k})]]

\* [row for row in reader]: the lines after the first, blank lines skipped
RECURSIVE DictRows(_, _)
DictRows(fn, lines) ==
    IF lines = <<>> THEN <<>>
    ELSE IF Head(lines) = <<>>
         THEN DictRows(fn, Tail(lines))
         ELSE <<DictRow(fn, Head(lines))>> \o DictRows(fn, Tail(lines))

\* row.get(key)
Get(row, key) == IF key \in DOMAIN row THEN row[key] ELSE NoneVal

RequiredMinNoLinux == {"Release date", "Price", "Windows", "Mac"}

RequiredMin == {"Release date", "Price", "Windows", "Mac", "Linux"}

\* ------------------------------------------------------------------------
\* sorting, and rounding to 2 places

RECURSIVE LexLess(_, _)
LexLess(a, b) ==
    IF a = <<>> \/ b = <<>> THEN a = <<>> /\ b # <<>>
    ELSE IF Head(a) # Head(b) THEN Head(a) < Head(b)
         ELSE LexLess(Tail(a), Tail(b))

\* list.sort(key=...) over entries [key, item]: stable, ascending by key
RECURSIVE InsertByKey(_, _)
InsertByKey(sorted, e) ==
    IF sorted = <<>> THEN <<e>>
    ELSE IF LexLess(e.key, Head(sorted).key)
         THEN <<e>> \o sorted
         ELSE <<Head(sorted)>> \o InsertByKey(Tail(sorted), e)

RECURSIVE SortByKey(_)
SortByKey(entries) ==
    IF entries = <<>> THEN <<>>
    ELSE InsertByKey(SortByKey(SubSeq(entries, 1, Len(entries) - 1)),
                     entries[Len(entries)])

Items(entries) == [i \in DOMAIN entries |-> entries[i].item]

\* a set of integers as a sequence, in some order
RECURSIVE SetToSeq(_)
SetToSeq(S) ==
    IF S = {} THEN <<>>
    ELSE LET x == CHOOSE x \in S : TRUE IN <<x>> \o SetToSeq(S \ {x})

\* n / d to the nearest integer, a tie going to the even one
RoundHalfEven(n, d) ==
    LET q == n \div d
        r == n % d
    IN IF 2 * r > d \/ (2 * r = d /\ q % 2 = 1) THEN q + 1 ELSE q

\* round((x / total) * 100, 2), in hundredths; the division raises when
\* total is 0
Percent(x, total) ==
    IF total = 0 THEN [exc |-> "ZeroDivisionError"]
    ELSE [exc |-> "none", v |-> RoundHalfEven(10000 * x, total)]

\* the local pct(x) of os_compatibility and multi_os_summary
GuardedPercent(x, total) ==
    IF total # 0 THEN Percent(x, total) ELSE [exc |-> "none", v |-> 0]

\* ------------------------------------------------------------------------
\* the queries: each returns [exc |-> "none", val |-> ...], or the exception
\* it raises

IsFreeOnlyZero(price) == price.num = 0

\* price <= 0.0
IsFree(price) == LeqZero(price)

\* the loop of percent_free_vs_paid
RECURSIVE FreeCount(_)
FreeCount(d) ==
    IF d = <<>> THEN 0
    ELSE (IF IsFree(ToFloat(Get(Head(d), "Price"))) THEN 1 ELSE 0)
         + FreeCount(Tail(d))

ZeroedFreePaid ==
    [exc |-> "none",
     val |-> [total |-> 0, gratuitos_pct |-> 0, pagos_pct |-> 0,
              gratuitos_qtd |-> 0, pagos_qtd |-> 0]]

FreePaidReport(d) ==
    LET total == Len(d)
        free  == FreeCount(d)
        paid  == total - free
        fp    == Percent(free, total)
        pp    == Percent(paid, total)
    IN IF fp.exc # "none" THEN [exc |-> fp.exc]
       ELSE IF pp.exc # "none" THEN [exc |-> pp.exc]
       ELSE [exc |-> "none",
             val |-> [total |-> total, gratuitos_pct |-> fp.v,
                      pagos_pct |-> pp.v, gratuitos_qtd |-> free,
                      pagos_qtd |-> paid]]

PercentFreeVsPaidNoGuard(d) == FreePaidReport(d)

PercentFreeVsPaid(d) ==
    IF Len(d) = 0 THEN ZeroedFreePaid ELSE FreePaidReport(d)

\* counts[y] += 1 on a defaultdict(int)
Incr(counts, y) ==
    IF y \in DOMAIN counts
    THEN [counts EXCEPT ![y] = @ + 1]
    ELSE [z \in DOMAIN counts \cup {y} |-> IF z = y THEN 1 ELSE counts[z]]

EmptyCounts == [z \in {} |-> 0]

\* the counting loop of top_years_by_releases and year_histogram
RECURSIVE YearCounts(_, _)
YearCounts(d, counts) ==
    IF d = <<>> THEN counts
    ELSE LET y == ExtractYear(Get(Head(d), "Release date"))
         IN YearCounts(Tail(d), IF y # NoYear THEN Incr(counts, y) ELSE counts)

TopYearsFirstOnly(d) ==
    LET counts == YearCounts(d, EmptyCounts)
    IN IF DOMAIN counts = {} THEN [exc |-> "none", val |-> <<>>]
       ELSE LET max_val == Max({counts[y] : y \in DOMAIN counts})
                first   == CHOOSE y \in DOMAIN counts :
                              /\ counts[y] = max_val
                              /\ \A z \in DOMAIN counts : counts[z] = max_val => y <= z
            IN [exc |-> "none", val |-> <<first>>]

TopYearsByReleases(d) ==
    LET counts == YearCounts(d, EmptyCounts)
    IN IF DOMAIN counts = {} THEN [exc |-> "none", val |-> <<>>]
       ELSE LET max_val == Max({counts[y] : y \in DOMAIN counts})
                winners == SetToSeq({y \in DOMAIN counts : counts[y] = max_val})
            IN [exc |-> "none",
                val |-> Items(SortByKey([i \in DOMAIN winners |->
                          [key |-> <<winners[i]>>, item |-> winners[i]]]))]

YearHistogram(d) ==
    LET counts == YearCounts(d, EmptyCounts)
        items  == SetToSeq(DOMAIN counts)
    IN [exc |-> "none",
        val |-> Items(SortByKey([i \in DOMAIN items |->
                  [key  |-> <<0 - counts[items[i]], items[i]>>,
                   item |-> <<items[i], counts[items[i]]>>]]))]

\* the loop of os_compatibility, for one platform column
RECURSIVE FlagCount(_, _)
FlagCount(d, col) ==
    IF d = <<>> THEN 0
    ELSE (IF ToBool(Get(Head(d), col)) THEN 1 ELSE 0) + FlagCount(Tail(d), col)

OsNames == <<"Windows", "Mac", "Linux">>

OsCompatibility(d) ==
    LET total == Len(d)
        w  == FlagCount(d, "Windows")
        m  == FlagCount(d, "Mac")
        l  == FlagCount(d, "Linux")
        pw == GuardedPercent(w, total)
        pm == GuardedPercent(m, total)
        pl == GuardedPercent(l, total)
    IN IF pw.exc # "none" THEN [exc |-> pw.exc]
       ELSE IF pm.exc # "none" THEN [exc |-> pm.exc]
       ELSE IF pl.exc # "none" THEN [exc |-> pl.exc]
       ELSE [exc |-> "none",
             val |-> [total   |-> total,
                      Windows |-> [qty |-> w, pct |-> pw.v],
                      Mac     |-> [qty |-> m, pct |-> pm.v],
                      Linux   |-> [qty |-> l, pct |-> pl.v]]]

\* the number of platforms of one row
PlatformCount(row) ==
    (IF ToBool(Get(row, "Windows")) THEN 1 ELSE 0)
    + (IF ToBool(Get(row, "Mac")) THEN 1 ELSE 0)
    + (IF ToBool(Get(row, "Linux")) THEN 1 ELSE 0)

BucketMoreThanTwo(s) ==
    IF s > 2 THEN "multi" ELSE IF s = 1 THEN "single" ELSE "zero"

\* if s >= 2 ... elif s == 1 ... else
Bucket(s) ==
    IF s >= 2 THEN "multi" ELSE IF s = 1 THEN "single" ELSE "zero"

RECURSIVE BucketCount(_, _)
BucketCount(d, b) ==
    IF d = <<>> THEN 0
    ELSE (IF Bucket(PlatformCount(Head(d))) = b THEN 1 ELSE 0)
         + BucketCount(Tail(d), b)

MultiOsSummary(d) ==
    LET total  == Len(d)
        multi  == BucketCount(d, "multi")
        single == BucketCount(d, "single")
        zero   == BucketCount(d, "zero")
        pm == GuardedPercent(multi, total)
        ps == GuardedPercent(single, total)
        pz == GuardedPercent(zero, total)
    IN IF pm.exc # "none" THEN [exc |-> pm.exc]
       ELSE IF ps.exc # "none" THEN [exc |-> ps.exc]
       ELSE IF pz.exc # "none" THEN [exc |-> pz.exc]
       ELSE [exc |-> "none",
             val |-> [total |-> total,
                      multi_qtd  |-> multi,  multi_pct  |-> pm.v,
                      single_qtd |-> single, single_pct |-> ps.v,
                      zero_qtd   |-> zero,   zero_pct   |-> pz.v]]

\* the order of the platform names as Python compares the strings
NameRank(os_name) ==
    CASE os_name = "Linux" -> 1
      [] os_name = "Mac" -> 2
      [] os_name = "Windows" -> 3

OsKeyNoName(t) == <<0 - t.qty, 0 - t.pct>>

\* key=lambda t: (-t[1], -t[2], t[0])
OsKey(t) == <<0 - t.qty, 0 - t.pct, NameRank(t.name)>>

MostCompatibleOs(d) ==
    LET dist == OsCompatibility(d)
    IN IF dist.exc # "none" THEN dist
       ELSE LET entry(os_name) ==
                    CASE os_name = "Windows" -> dist.val.Windows
                      [] os_name = "Mac" -> dist.val.Mac
                      [] os_name = "Linux" -> dist.val.Linux
                winners == [i \in DOMAIN OsNames |->
                              [name |-> OsNames[i],
                               qty  |-> entry(OsNames[i]).qty,
                               pct  |-> entry(OsNames[i]).pct]]
                sorted == Items(SortByKey([i \in DOMAIN winners |->
                              [key |-> OsKey(winners[i]), item |-> winners[i]]]))
            IN [exc |-> "none", val |-> sorted[1]]

RunQuery(name, d) ==
    CASE name = "percent_free_vs_paid" -> PercentFreeVsPaid(d)
      [] name = "top_years_by_releases" -> TopYearsByReleases(d)
      [] name = "year_histogram" -> YearHistogram(d)
      [] name = "os_compatibility" -> OsCompatibility(d)
      [] name = "most_compatible_os" -> MostCompatibleOs(d)
      [] name = "multi_os_summary" -> MultiOsSummary(d)

\* ------------------------------------------------------------------------
\* values of the variables a specification does not use

NoFile == [exists |-> FALSE, lines |-> <<>>]

NoOutcome == [kind |-> "none", returned |-> FALSE, ret |-> <<>>]

NoRes == [name |-> "none"]

MemoOff == [name |-> "off"]

NoInput == [kind |-> "none", s |-> NoneVal]

NoOut == [fn |-> "none"]

\* ------------------------------------------------------------------------
\* the SteamData instance: load() step by step, and the query calls

\* leaving the with block, by its end or by an exception: f is closed
LeaveOpen(h) == h

ExitWith(h) == FALSE

Raised(kind) == [kind |-> kind, returned |-> FALSE, ret |-> <<>>]

\* sd.load() is called
LoadCall ==
    /\ pc = "idle"
    /\ pc' = "exists"
    /\ outcome' = NoOutcome
    /\ res' = NoRes
    /\ memo' = IF memo = MemoOff THEN MemoOff ELSE NoRes
    /\ UNCHANGED <<file, data, handle, fieldnames, input, out>>

\* if not os.path.exists(self.csv_path): raise FileNotFoundErrorSD
LoadCheckExists ==
    /\ pc = "exists"
    /\ IF ~file.exists
       THEN pc' = "idle" /\ outcome' = Raised("FileNotFoundErrorSD")
       ELSE pc' = "open" /\ UNCHANGED outcome
    /\ UNCHANGED <<file, data, handle, fieldnames, res, memo, input, out>>

\* with open(self.csv_path, ...) as f
LoadOpen ==
    /\ pc = "open"
    /\ handle' = TRUE
    /\ pc' = "header"
    /\ UNCHANGED <<file, data, fieldnames, outcome, res, memo, input, out>>

\* reader = csv.DictReader(f); if not reader.fieldnames: raise InvalidCSVError
LoadHeader ==
    /\ pc = "header"
    /\ LET fn == ReaderFieldnames(file.lines)
       IN IF fn = NoneVal \/ fn = <<>>
          THEN /\ pc' = "idle"
               /\ outcome' = Raised("InvalidCSVError")
               /\ handle' = ExitWith(handle)
               /\ UNCHANGED fieldnames
          ELSE /\ pc' = "columns"
               /\ fieldnames' = fn
               /\ UNCHANGED <<outcome, handle>>
    /\ UNCHANGED <<file, data, res, memo, input, out>>

\* missing = self.REQUIRED_MIN - cols; if missing: raise InvalidCSVError
LoadColumns ==
    /\ pc = "columns"
    /\ LET cols    == Range(fieldnames)
           missing == RequiredMin \ cols
       IN IF missing # {}
          THEN /\ pc' = "idle"
               /\ outcome' = Raised("InvalidCSVError")
               /\ handle' = ExitWith(handle)
               /\ fieldnames' = NoneVal
          ELSE /\ pc' = "rows"
               /\ UNCHANGED <<outcome, handle, fieldnames>>
    /\ UNCHANGED <<file, data, res, memo, input, out>>

\* self.data = [row for row in reader], and the end of the with block
LoadRows ==
    /\ pc = "rows"
    /\ data' = DictRows(fieldnames, Tail(file.lines))
    /\ handle' = ExitWith(handle)
    /\ fieldnames' = NoneVal
    /\ pc' = "check"
    /\ UNCHANGED <<file, outcome, res, memo, input, out>>

\* if not self.data: raise InvalidCSVError; return self.data
LoadCheckRows ==
    /\ pc = "check"
    /\ pc' = "idle"
    /\ outcome' = IF data = <<>> THEN Raised("InvalidCSVError")
                  ELSE [kind |-> "ok", returned |-> TRUE, ret |-> data]
    /\ UNCHANGED <<file, data, handle, fieldnames, res, memo, input, out>>

\* a query is called between loads; memo, unless switched off, keeps this
\* call or an earlier one
Query(name) ==
    /\ pc = "idle"
    /\ res' = [name |-> name, r |-> RunQuery(name, data)]
    /\ (memo' = memo \/ (memo # MemoOff /\ memo' = res'))
    /\ UNCHANGED <<file, data, pc, handle, fieldnames, outcome, input, out>>

CallPercentFreeVsPaid == Query("percent_free_vs_paid")

CallTopYearsByReleases == Query("top_years_by_releases")

CallYearHistogramDraining ==
    /\ pc = "idle"
    /\ res' = [name |-> "year_histogram", r |-> RunQuery("year_histogram", data)]
    /\ (memo' = memo \/ (memo # MemoOff /\ memo' = res'))
    /\ data' = <<>>
    /\ UNCHANGED <<file, pc, handle, fieldnames, outcome, input, out>>

CallYearHistogram == Query("year_histogram")

CallOsCompatibility == Query("os_compatibility")

CallMostCompatibleOs == Query("most_compatible_os")

CallMultiOsSummary == Query("multi_os_summary")

Queries ==
    \/ CallPercentFreeVsPaid
    \/ CallTopYearsByReleases
    \/ CallYearHistogram
    \/ CallOsCompatibility
    \/ CallMostCompatibleOs
    \/ CallMultiOsSummary

Load ==
    \/ LoadCall
    \/ LoadCheckExists
    \/ LoadOpen
    \/ LoadHeader
    \/ LoadColumns
    \/ LoadRows
    \/ LoadCheckRows

\* ------------------------------------------------------------------------
\* Spec: an instance on a path whose file changes between the calls

MaxLines == 2

HeaderFull == <<"Name", "Release date", "Price", "Windows", "Mac", "Linux">>

HeaderNoLinux == <<"Name", "Release date", "Price", "Windows", "Mac">>

Headers == {HeaderFull, HeaderNoLinux}

\* a file of one blank line: its first line holds no column name
BlankFile == [exists |-> TRUE, lines |-> << <<>> >>]

LineFull == <<<<"A">>, <<"2", "0", "0", "8">>, <<"5">>, <<"1">>, <<"y", "e", "s">>, <<"0">>>>

LineShort == <<<<"B">>>>

LineLong == <<<<"C">>, <<"x">>, <<"x">>, <<"n">>, <<"n">>, <<"n">>, <<"z">>>>

FileLines == {LineFull, LineShort, LineLong, <<>>}

RECURSIVE SeqsUpTo(_, _)
SeqsUpTo(S, n) ==
    IF n = 0 THEN {<<>>}
    ELSE LET shorter == SeqsUpTo(S, n - 1)
         IN shorter \cup {<<x>> \o s : x \in S, s \in shorter}

\* no file, an empty file, a blank one, and the files of a header and n
\* lines at most
Files(n) ==
    {NoFile, [exists |-> TRUE, lines |-> <<>>], BlankFile}
    \cup {[exists |-> TRUE, lines |-> <<h>> \o ls] :
            h \in Headers, ls \in SeqsUpTo(FileLines, n)}

Init ==
    /\ file \in Files(MaxLines)
    /\ data = <<>>
    /\ pc = "idle"
    /\ handle = FALSE
    /\ fieldnames = NoneVal
    /\ outcome = NoOutcome
    /\ res = NoRes
    /\ memo = MemoOff
    /\ input = NoInput
    /\ out = NoOut

\* between the calls the file at csv_path is removed, started anew with a
\* first line (or none), or gets one more line after its header
RemoveFile ==
    /\ pc = "idle"
    /\ file.exists
    /\ file' = NoFile
    /\ UNCHANGED <<data, pc, handle, fieldnames, outcome, res, memo, input, out>>

CreateFile ==
    /\ pc = "idle"
    /\ \E ls \in {<<>>, << <<>> >>} \cup {<<h>> : h \in Headers} :
          file' = [exists |-> TRUE, lines |-> ls]
    /\ UNCHANGED <<data, pc, handle, fieldnames, outcome, res, memo, input, out>>

AppendLine ==
    /\ pc = "idle"
    /\ file.exists
    /\ Len(file.lines) >= 1
    /\ file # BlankFile
    /\ Len(file.lines) < 1 + MaxLines
    /\ \E l \in FileLines : file' = [file EXCEPT !.lines = Append(@, l)]
    /\ UNCHANGED <<data, pc, handle, fieldnames, outcome, res, memo, input, out>>

WriteFile == RemoveFile \/ CreateFile \/ AppendLine

Next == Load \/ Queries \/ WriteFile

Spec == Init /\ [][Next]_vars

\* ------------------------------------------------------------------------
\* SpecQuery: one session, as main() runs it: a file of MaxData lines at
\* most under the required header, loaded and then queried

MaxData == 3

HeaderMin == <<"Release date", "Price", "Windows", "Mac", "Linux">>

QueryLine1 == <<<<"2", "0", "0", "8">>, <<"5">>, <<"T", "r", "u", "e">>, <<"F", "a", "l", "s", "e">>, <<"F", "a", "l", "s", "e">>>>

QueryLine2 == <<<<"1", "9", "9", "9", " ", "2", "0", "0", "1">>, <<"R", "$", " ", "0", ",", "0", "0">>, <<"t", "r", "u", "e">>, <<"1">>, <<>>>>

QueryLine3 == <<<<>>, <<"x">>, <<"F", "a", "l", "s", "e">>, <<"F", "a", "l", "s", "e">>, <<"F", "a", "l", "s", "e">>>>

QueryLine4 == <<<<"2", "0", "0", "8">>, <<"-", "5">>, <<"y", "e", "s">>, <<"y", "e", "s">>, <<"y">>>>

QueryLine5 == <<<<"2", "0", "0", "1">>, <<"$", "5">>, <<"0">>, <<"n", "o">>, <<"T", "r", "u", "e">>>>

QueryLine6 == <<<<"1", "9", "6", "9">>, <<"0", ",", "5">>, <<"n">>, <<"T", "R", "U", "E", " ">>, <<"n">>>>

QueryLine7 == <<<<"1", "9", "9", "9">>>>

QueryLines ==
    {QueryLine1, QueryLine2, QueryLine3, QueryLine4, QueryLine5, QueryLine6,
     QueryLine7}

SessionFiles(n) ==
    {[exists |-> TRUE, lines |-> <<HeaderMin>> \o ls] :
        ls \in SeqsUpTo(QueryLines, n)}

InitQuery ==
    /\ file \in SessionFiles(MaxData)
    /\ data = <<>>
    /\ pc = "idle"
    /\ handle = FALSE
    /\ fieldnames = NoneVal
    /\ outcome = NoOutcome
    /\ res = NoRes
    /\ memo = MemoOff
    /\ input = NoInput
    /\ out = NoOut

NextQuery == Load \/ Queries

SpecQuery == InitQuery /\ [][NextQuery]_vars

\* ------------------------------------------------------------------------
\* SpecSession: one session on any of the files of Spec, with the memo of an
\* earlier query call switched on

InitSession ==
    /\ file \in Files(MaxLines)
    /\ data = <<>>
    /\ pc = "idle"
    /\ handle = FALSE
    /\ fieldnames = NoneVal
    /\ outcome = NoOutcome
    /\ res = NoRes
    /\ memo = NoRes
    /\ input = NoInput
    /\ out = NoOut

NextSession == Load \/ Queries

SpecSession == InitSession /\ [][NextSession]_vars

\* ------------------------------------------------------------------------
\* the loader's claims (under Spec)

\* the step in which load() returns or raises
LoadEnds == pc # "idle" /\ pc' = "idle"

NonBlank(lines) == SelectSeq(lines, LAMBDA l : l # <<>>)

\* C1: load() ends with FileNotFoundErrorSD when the path does not exist;
\* with InvalidCSVError when the file has no header row, when one of Release
\* date, Price, Windows, Mac, Linux is not in the header, or when no data row
\* follows the header; it returns nothing in these cases.  In every other
\* case it returns self.data: the data rows, in file order, none of them
\* lost, each with every header column as a key.
C1_LoadOutcome ==
    [][LoadEnds =>
        LET hdr  == IF file.lines = <<>> THEN <<>> ELSE file.lines[1]
            rows == IF file.lines = <<>> THEN <<>> ELSE NonBlank(Tail(file.lines))
            o    == outcome'
        IN IF ~file.exists
           THEN o.kind = "FileNotFoundErrorSD" /\ ~o.returned
           ELSE IF \/ hdr = <<>>
                   \/ \E c \in {"Release date", "Price", "Windows", "Mac", "Linux"} :
                         c \notin Range(hdr)
                   \/ rows = <<>>
           THEN o.kind = "InvalidCSVError" /\ ~o.returned
           ELSE /\ o.kind = "ok"
                /\ o.returned
                /\ o.ret = data'
                /\ Len(o.ret) = Len(rows)
                /\ Len(o.ret) > 0
                /\ \A i \in DOMAIN rows :
                     /\ Range(hdr) \subseteq DOMAIN o.ret[i]
                     /\ \A j \in DOMAIN hdr :
                          o.ret[i][hdr[j]] =
                             (IF j <= Len(rows[i]) THEN rows[i][j] ELSE NoneVal)
    ]_vars

\* a load that returned the two rows of a file, one longer and one shorter
\* than the header
C1_Witness ==
    /\ pc = "idle"
    /\ outcome.kind = "ok"
    /\ file.lines = <<HeaderFull, LineLong, LineShort>>
    /\ Len(outcome.ret) = 2
    /\ outcome.ret[1]["Price"] = <<"x">>
    /\ outcome.ret[2]["Price"] = NoneVal

\* C10: the file is open only inside the with block of load(), which is
\* entered only on a path that exists; whenever load() has returned or
\* raised, and after the with block, the file is closed.
C10_HandleScoped ==
    /\ handle => file.exists /\ pc \in {"header", "columns", "rows"}
    /\ pc \in {"idle", "exists", "open", "check"} => ~handle

\* load() has raised for the missing Linux column, and the file is closed
C10_Witness ==
    /\ pc = "idle"
    /\ ~handle
    /\ outcome.kind = "InvalidCSVError"
    /\ file.lines # <<>>
    /\ file.lines[1] = HeaderNoLinux

\* ------------------------------------------------------------------------
\* the queries' claims

Abs(n) == IF n < 0 THEN 0 - n ELSE n

\* p hundredths is count / total * 100 rounded to 2 places
IsRounded(p, count, total) == 2 * Abs(p * total - 10000 * count) <= total

PriceOf(row) == ToFloat(Get(row, "Price"))

YearOf(row) == ExtractYear(Get(row, "Release date"))

\* the number of rows whose flag in column col parses as true
Supporting(col) == Cardinality({i \in DOMAIN data : ToBool(Get(data[i], col))})

\* the number of rows with a number of platforms in S
WithPlatforms(S) ==
    Cardinality({i \in DOMAIN data :
        Cardinality({c \in {"Windows", "Mac", "Linux"} : ToBool(Get(data[i], c))}) \in S})

\* C2: on T > 0 records percent_free_vs_paid() reports total T, as free the
\* records whose price is <= 0.0, as paid the others; each percentage is
\* count / T * 100 rounded to 2 places, and the two add up to 100.0 within
\* 0.01.
C2_FreePaid ==
    (res.name = "percent_free_vs_paid" /\ Len(data) > 0) =>
        LET T    == Len(data)
            free == Cardinality({i \in DOMAIN data : PriceOf(data[i]).num <= 0})
            v    == res.r.val
        IN /\ res.r.exc = "none"
           /\ v.total = T
           /\ v.gratuitos_qtd = free
           /\ v.pagos_qtd = T - free
           /\ v.gratuitos_qtd + v.pagos_qtd = T
           /\ IsRounded(v.gratuitos_pct, free, T)
           /\ IsRounded(v.pagos_pct, T - free, T)
           /\ Abs(v.gratuitos_pct + v.pagos_pct - 10000) <= 1

\* one free record of three, free by its negative price: 33.33 and 66.67
C2_Witness ==
    /\ res.name = "percent_free_vs_paid"
    /\ Len(data) = 3
    /\ res.r.val.gratuitos_qtd = 1
    /\ res.r.val.gratuitos_pct = 3333
    /\ res.r.val.pagos_pct = 6667
    /\ \E i \in DOMAIN data : PriceOf(data[i]).num < 0

\* C3: top_years_by_releases() is strictly ascending and holds exactly the
\* years with the largest number of records (records without a year are
\* skipped); it is empty exactly when no record has a year.
C3_TopYears ==
    res.name = "top_years_by_releases" =>
        LET years    == {YearOf(data[i]) : i \in DOMAIN data} \ {NoYear}
            count(y) == Cardinality({i \in DOMAIN data : YearOf(data[i]) = y})
            v        == res.r.val
        IN /\ res.r.exc = "none"
           /\ \A i \in 1..(Len(v) - 1) : v[i] < v[i + 1]
           /\ Range(v) = {y \in years : \A z \in years : count(z) <= count(y)}
           /\ (v = <<>>) <=> (years = {})

\* two years tied, and a third record without a year
C3_Witness ==
    /\ res.name = "top_years_by_releases"
    /\ Len(data) = 3
    /\ Len(res.r.val) = 2
    /\ \E i \in DOMAIN data : YearOf(data[i]) = NoYear

\* C4: most_compatible_os() returns the entry of os_compatibility() of the
\* platform with the largest count, Linux before Mac before Windows among
\* the platforms that share it; with T > 0 every percentage is in [0, 100].
C4_MostCompatible ==
    res.name = "most_compatible_os" =>
        LET w    == Supporting("Windows")
            m    == Supporting("Mac")
            l    == Supporting("Linux")
            top  == Max({w, m, l})
            dist == OsCompatibility(data).val
            v    == res.r.val
        IN /\ res.r.exc = "none"
           /\ v.qty = top
           /\ v.name = (IF l = top THEN "Linux" ELSE IF m = top THEN "Mac" ELSE "Windows")
           /\ v.name = "Linux" => v = [name |-> "Linux", qty |-> l, pct |-> dist.Linux.pct]
           /\ v.name = "Mac" => v = [name |-> "Mac", qty |-> m, pct |-> dist.Mac.pct]
           /\ v.name = "Windows" => v = [name |-> "Windows", qty |-> w, pct |-> dist.Windows.pct]
           /\ Len(data) > 0 =>
                /\ IsRounded(v.pct, top, Len(data))
                /\ \A p \in {dist.Windows.pct, dist.Mac.pct, dist.Linux.pct} :
                     0 <= p /\ p <= 10000

\* Windows and Mac tied above Linux: Mac is returned
C4_Witness ==
    /\ res.name = "most_compatible_os"
    /\ res.r.val.name = "Mac"
    /\ res.r.val.qty = 2
    /\ Supporting("Windows") = 2
    /\ Supporting("Linux") = 1

\* C5: multi_os_summary() counts each record once, by its number of
\* platforms: none as zero, one as single, two or three as multi; the three
\* counts add up to the total T.
C5_Buckets ==
    res.name = "multi_os_summary" =>
        LET v == res.r.val
        IN /\ res.r.exc = "none"
           /\ v.total = Len(data)
           /\ v.zero_qtd = WithPlatforms({0})
           /\ v.single_qtd = WithPlatforms({1})
           /\ v.multi_qtd = WithPlatforms({2, 3})
           /\ v.multi_qtd + v.single_qtd + v.zero_qtd = Len(data)

\* one record in each bucket, the multi one with exactly two platforms
C5_Witness ==
    /\ res.name = "multi_os_summary"
    /\ res.r.val.multi_qtd = 1
    /\ res.r.val.single_qtd = 1
    /\ res.r.val.zero_qtd = 1
    /\ WithPlatforms({2}) = 1

\* the step of a query call (under SpecSession the file is not written)
QueryStep == pc = "idle" /\ pc' = "idle"

\* C6: a query call leaves self.data (and the file, and what load()
\* returned) as it was, and returns what an earlier call of the same query
\* returned since the load.
C6_QueriesReadOnly ==
    [][QueryStep =>
        /\ data' = data
        /\ file' = file
        /\ outcome' = outcome
        /\ memo.name = res'.name => res'.r = memo.r
    ]_vars

\* after a load that returned, a query was called after another one
C6_Witness ==
    /\ outcome.kind = "ok"
    /\ data = outcome.ret
    /\ Len(data) = 2
    /\ memo.name = "year_histogram"
    /\ res.name = "most_compatible_os"

\* a record none of whose fields parses
IsNoise(row) ==
    /\ Get(row, "Price") \in {NoneVal, <<"x">>}
    /\ YearOf(row) = NoYear
    /\ \A c \in {"Windows", "Mac", "Linux"} : ~ToBool(Get(row, c))

\* C7: whatever loads came before, a query returns and does not raise; on an
\* empty self.data the reports are zeroed and the year list is empty; on
\* records none of whose fields parses all records are free, the year list
\* is empty and the platform counts are 0.
C7_QueriesNeverRaise ==
    res.name # "none" =>
        LET v     == res.r.val
            empty == data = <<>>
            noise == \A i \in DOMAIN data : IsNoise(data[i])
        IN /\ res.r.exc = "none"
           /\ res.name = "percent_free_vs_paid" =>
                /\ empty => v = [total |-> 0, gratuitos_pct |-> 0, pagos_pct |-> 0,
                                 gratuitos_qtd |-> 0, pagos_qtd |-> 0]
                /\ noise => v.gratuitos_qtd = Len(data) /\ v.pagos_qtd = 0
           /\ res.name = "top_years_by_releases" => (noise => v = <<>>)
           /\ res.name = "year_histogram" => (noise => v = <<>>)
           /\ res.name = "os_compatibility" =>
                /\ v.total = Len(data)
                /\ noise => \A e \in {v.Windows, v.Mac, v.Linux} : e = [qty |-> 0, pct |-> 0]
           /\ res.name = "most_compatible_os" => (noise => v.qty = 0 /\ v.pct = 0)
           /\ res.name = "multi_os_summary" =>
                /\ v.total = Len(data)
                /\ empty => v.zero_qtd = 0 /\ v.zero_pct = 0
                /\ noise => /\ v.multi_qtd = 0 /\ v.multi_pct = 0
                            /\ v.single_qtd = 0 /\ v.single_pct = 0
                            /\ v.zero_qtd = Len(data)

\* a query on the records of an earlier load, after a load that raised
C7_Witness ==
    /\ pc = "idle"
    /\ outcome.kind = "InvalidCSVError"
    /\ data # <<>>
    /\ \A i \in DOMAIN data : IsNoise(data[i])
    /\ res.name = "percent_free_vs_paid"
    /\ res.r.val.gratuitos_pct = 10000

\* ------------------------------------------------------------------------
\* SpecNorm: the normalizers, each applied to the strings of its field

MaxPriceLen == 4

MaxDateTokens == 3

PriceAlphabet == {"R", "$", ",", ".", "-", " ", "5", "0"}

DateTokens == {"1", "9", "19", "20", "70", "99", "1969", "1999", "2001", " "}

Chars(tok) ==
    CASE tok = "19" -> <<"1", "9">>
      [] tok = "20" -> <<"2", "0">>
      [] tok = "99" -> <<"9", "9">>
      [] tok = "70" -> <<"7", "0">>
      [] tok = "1969" -> <<"1", "9", "6", "9">>
      [] tok = "1999" -> <<"1", "9", "9", "9">>
      [] tok = "2001" -> <<"2", "0", "0", "1">>
      [] OTHER -> <<tok>>

PriceInputs(n) == UNION {[1..k -> PriceAlphabet] : k \in 0..n}

RECURSIVE DateStrings(_)
DateStrings(n) ==
    IF n = 0 THEN {<<>>}
    ELSE LET shorter == DateStrings(n - 1)
         IN shorter \cup {Chars(t) \o s : t \in DateTokens, s \in shorter}

FlagInputs ==
    { <<>>, <<" ">>, <<"1">>, <<"0">>, <<"1", "1">>, <<" ", "1", " ">>,
      <<"y">>, <<"Y">>, <<"n">>, <<"y", "e", "s">>, <<"Y", "e", "s">>,
      <<"Y", "E", "S", " ">>, <<"n", "o">>, <<"y", "e">>,
      <<"t", "r", "u", "e">>, <<"T", "r", "u", "e">>, <<"T", "R", "U", "E">>,
      <<" ", "t", "r", "u", "e">>, <<"t", "r", "u", "e", "x">>,
      <<"F", "a", "l", "s", "e">>, <<"t">>, <<"o", "n">> }

NormInputs(np, nd) ==
    {[kind |-> "price", s |-> s] : s \in PriceInputs(np) \cup {NoneVal}}
    \cup {[kind |-> "date", s |-> s] : s \in DateStrings(nd) \cup {NoneVal}}
    \cup {[kind |-> "flag", s |-> s] : s \in FlagInputs \cup {NoneVal}}

InitNorm ==
    /\ file = NoFile
    /\ data = <<>>
    /\ pc = "idle"
    /\ handle = FALSE
    /\ fieldnames = NoneVal
    /\ outcome = NoOutcome
    /\ res = NoRes
    /\ memo = NoRes
    /\ input \in NormInputs(MaxPriceLen, MaxDateTokens)
    /\ out = NoOut

CallToFloat ==
    /\ input.kind = "price"
    /\ out' = [fn |-> "_to_float", val |-> ToFloat(input.s)]
    /\ UNCHANGED <<file, data, pc, handle, fieldnames, outcome, res, memo, input>>

CallToBool ==
    /\ input.kind = "flag"
    /\ out' = [fn |-> "_to_bool", val |-> ToBool(input.s)]
    /\ UNCHANGED <<file, data, pc, handle, fieldnames, outcome, res, memo, input>>

CallExtractYear ==
    /\ input.kind = "date"
    /\ out' = [fn |-> "_extract_year", val |-> ExtractYear(input.s)]
    /\ UNCHANGED <<file, data, pc, handle, fieldnames, outcome, res, memo, input>>

NextNorm == CallToFloat \/ CallToBool \/ CallExtractYear

SpecNorm == InitNorm /\ [][NextNorm]_vars

\* ------------------------------------------------------------------------
\* the normalizers' claims (under SpecNorm)

YearAt(s, p) ==
    1000 * DigitVal(s[p]) + 100 * DigitVal(s[p + 1])
    + 10 * DigitVal(s[p + 2]) + DigitVal(s[p + 3])

\* the positions where a left-to-right scan finds a match: a 19xx or 20xx
\* begins there and none of the three positions before is itself a match
ScanStarts(s) ==
    LET Found[p \in 0..Len(s)] ==
            IF p = 0 THEN FALSE
            ELSE /\ IsYearAt(s, p)
                 /\ \A q \in 1..(p - 1) : q >= p - 3 => ~Found[q]
    IN {p \in 1..Len(s) : Found[p]}

\* every position where a 4-digit substring 19xx or 20xx begins
SubstringStarts(s) == {p \in 1..Len(s) : IsYearAt(s, p)}

LastKept(s, starts) ==
    LET kept == {p \in starts : InYearRange(YearAt(s, p))}
    IN IF kept = {} THEN NoYear ELSE YearAt(s, Max(kept))

C9_LastSubstring ==
    out.fn = "_extract_year" =>
        out.val = (IF input.s = NoneVal THEN NoYear
                   ELSE LastKept(input.s, SubstringStarts(input.s)))

\* C9 amended: the matches are those of a left-to-right scan that resumes
\* after the end of each match (they do not overlap); of these, the last
\* whose value is in [1970, 2100] is returned, and "no year" when the input
\* is missing or empty or no match is in the range.
C9_LastScanMatch ==
    out.fn = "_extract_year" =>
        out.val = (IF input.s = NoneVal THEN NoYear
                   ELSE LastKept(input.s, ScanStarts(input.s)))

\* 2001 and then 1999: the last match is neither the first nor the maximum
C9_Witness ==
    /\ out.fn = "_extract_year"
    /\ input.s = <<"2", "0", "0", "1", "1", "9", "9", "9">>
    /\ out.val = 1999

====
